---- MODULE Spec2Model ----
(***************************************************************************)
(* Model of the metadata agent's updater lifecycle (MetadataUpdater), its  *)
(* polling scheduler (PollingMetadataUpdater) and the timed mutex it uses  *)
(* as a cancellation token.  Two threads touch one updater instance: the   *)
(* orchestrator ("main"), which calls Start(), NotifyStop() and the        *)
(* destructor, and the reporter thread running PollForMetadata().          *)
(* The log sink (LogStream) is modelled with its own writer threads and a  *)
(* thread that calls set_stream().                                         *)
(***************************************************************************)
EXTENDS Integers, Sequences, FiniteSets, TLC

\* ---------------------------------------------------------------- bounds
\* Largest polling period (seconds) given to the constructor.
MaxPeriod == 2
\* Last instant of the discrete clock.
MaxTime == 2
\* Longest vector a query_metadata_() call returns.
MaxLen == 2
\* How many of the latest query instants the history keeps.
MaxHist == 3

\* Most write() calls one thread issues.
MaxWrites == 2
\* Characters in a written line (without the terminator).
LineLen == 2

\* Periods the constructor is given: negative, zero and positive ones.
Periods == (0 - MaxPeriod)..MaxPeriod
\* ResourceMetadata values (opaque).
Items == {"A", "B"}
\* The vectors query_metadata_() may return.
QueryResults == UNION {[1..n -> Items] : n \in 0..MaxLen}

\* The threads that call LogStream::write; each writes lines made of its
\* own name, so that characters of different calls can be told apart.
Writers == {"w1", "w2"}
\* The ostreams a LogStream is given: the constructor's and set_stream's.
Targets == {"old", "new"}
\* What std::endl puts before it flushes.
NL == "\n"

VARIABLES
  period_,         \* PollingMetadataUpdater::period_
  timer_,          \* owner of the std::timed_mutex timer_: "none", "main", "worker"
  reporter_thread_,\* position of the reporter thread; "none" = no thread (not joinable)
  mpc,             \* position of the orchestrator thread
  startResult,     \* how Start() ended: "none" (not called), "ok", "ConfigurationValidationError"
  hooks,           \* the hooks Start() called, in order
  now,             \* std::chrono::high_resolution_clock::now()
  result_vector,   \* PollForMetadata: result_vector of the round
  idx,             \* PollForMetadata: position of the range-for in result_vector
  start,           \* PollForMetadata: start
  wakeup,          \* PollForMetadata: wakeup
  done,            \* PollForMetadata: done
  roundLog,        \* store callbacks observed in the current round
  storeCalled,     \* history: some store callback has been invoked
  queryTimes,      \* history: instants of the latest query_metadata_() invocations
  rounds,          \* history: 0, 1 or 2 (= two or more) rounds begun
  roundEnd,        \* history: instant the latest round's last call returned
  earlyReturn,     \* history: the latest wait saw try_lock_until fail before wakeup
  stopRequested,   \* history: NotifyStop() has been called
  stopBeforeFirst, \* history: NotifyStop() was called before the first query
  stopInWait,      \* history: NotifyStop() released timer_ inside the wait, before wakeup
  dynamicValid,    \* whether ValidateDynamicConfiguration() accepts the configuration
  spawned,         \* history: number of reporter threads StartUpdater has spawned
  afterStop,       \* history: 0, 1 or 2 (= two or more) rounds begun after NotifyStop()
  stopInRound,     \* history: "no", or how the round NotifyStop() landed in went on
  queryFailed,     \* history: a query_metadata_() call has thrown
  badUnlock,       \* history: timer_.unlock() ran while main did not own timer_
  mutex_,          \* LogStream::mutex_: "none" or the writer that holds it
  out_,            \* LogStream::out_: the target it points to
  buf,             \* per target: characters in the stream's buffer
  dev,             \* per target: characters flushed to the stream's device
  wr,              \* per writer: pc, n (write() calls returned), pos (characters
                   \* of the line appended), os (the stream *out_ referred to)
  dest,            \* history, per writer: targets its current write() appended to
  spc,             \* position of the thread that calls set_stream
  flushed,         \* set_stream: the buffered characters its flush wrote out
  raced            \* history: a write() touched the stream set_stream was flushing

updVars == <<period_, timer_, reporter_thread_, mpc, startResult, hooks, now,
          result_vector, idx, start, wakeup, done, roundLog, storeCalled,
          queryTimes, rounds, roundEnd, earlyReturn, stopRequested, stopBeforeFirst,
          stopInWait, dynamicValid, spawned, afterStop, stopInRound, queryFailed,
          badUnlock>>
logVars == <<mutex_, out_, buf, dev, wr, dest, spc, flushed, raced>>
vars == <<updVars, logVars>>

workerVars == <<result_vector, idx, start, wakeup, done, roundLog, storeCalled,
                queryTimes, rounds, roundEnd, earlyReturn>>
mainVars == <<mpc, startResult, hooks, stopRequested, stopBeforeFirst, stopInWait>>
\* The configuration input and the histories most steps leave alone.
auxVars == <<dynamicValid, spawned, afterStop, stopInRound, queryFailed, badUnlock>>

\* ------------------------------------------------------------- helpers
\* The store events one round must produce for the vector r:
\* resource-update(r[1]), metadata-update(r[1]), resource-update(r[2]), ...
Expected(r) ==
  [k \in 1..(2 * Len(r)) |->
     <<IF k % 2 = 1 THEN "resource" ELSE "metadata", r[(k + 1) \div 2]>>]

Min(a, b) == IF a < b THEN a ELSE b

\* Append t to the history h, keeping the latest MaxHist entries.
Push(h, t) ==
  IF Len(h) < MaxHist THEN Append(h, t) ELSE Append(Tail(h), t)

\* ----------------------------------------------------- updater.cc hooks
ValidateStaticConfiguration_accept(p) == TRUE
\* TRUE iff ValidateStaticConfiguration() returns without throwing.
ValidateStaticConfiguration(p) == ~(p < 0)

ShouldStartUpdater_zero(p) == p >= 0
ShouldStartUpdater(p) == p > 0

\* TRUE iff ValidateDynamicConfiguration() returns without throwing; what it
\* checks is the concrete updater's business.
ValidateDynamicConfiguration == dynamicValid

LoopEntry_waitfirst == "arm"
\* PollForMetadata is a do-while: the thread's first statement is the query.
LoopEntry == "query"

StartUpdater_nolock ==
  /\ timer_' = timer_
  /\ reporter_thread_' = LoopEntry
  /\ spawned' = spawned + 1
\* timer_.lock() by the calling thread, then the reporter thread is spawned.
StartUpdater ==
  /\ timer_' = "main"
  /\ reporter_thread_' = LoopEntry
  /\ spawned' = spawned + 1

\* Outcomes of timer_.unlock() by the orchestrator.  Unlocking a mutex the
\* caller does not own is undefined: the mutex may or may not end up free.
UnlockOutcomes(t) == IF t = "main" THEN {"none"} ELSE {t, "none"}

NotifyStopUpdater_nounlock == timer_' = timer_
NotifyStopUpdater == timer_' \in UnlockOutcomes(timer_)

\* std::thread::joinable()
Joinable_never(t) == FALSE
Joinable(t) == t # "none"

\* ------------------------------------------------------------ lifecycle
Init ==
  /\ period_ \in Periods
  /\ timer_ = "none"
  /\ reporter_thread_ = "none"
  /\ mpc = "created"
  /\ startResult = "none"
  /\ hooks = <<>>
  /\ now = 0
  /\ result_vector = <<>>
  /\ idx = 1
  /\ start = 0
  /\ wakeup = 0
  /\ done = FALSE
  /\ roundLog = <<>>
  /\ storeCalled = FALSE
  /\ queryTimes = <<>>
  /\ rounds = 0
  /\ roundEnd = 0
  /\ earlyReturn = FALSE
  /\ stopRequested = FALSE
  /\ stopBeforeFirst = FALSE
  /\ stopInWait = FALSE
  /\ dynamicValid \in BOOLEAN
  /\ spawned = 0
  /\ afterStop = 0
  /\ stopInRound = "no"
  /\ queryFailed = FALSE
  /\ badUnlock = FALSE
  /\ mutex_ = "none"
  /\ out_ = "old"
  /\ buf = [t \in Targets |-> <<>>]
  /\ dev = [t \in Targets |-> <<>>]
  /\ wr = [w \in Writers |-> [pc |-> "idle", n |-> 0, pos |-> 0, os |-> "old"]]
  /\ dest = [w \in Writers |-> {}]
  /\ spc = "idle"
  /\ flushed = <<>>
  /\ raced = FALSE

\* Start() leaves through the exception a validation hook threw, having
\* called the hooks h: nothing is locked, no thread is spawned.
StartThrows(h) ==
  /\ startResult' = "ConfigurationValidationError"
  /\ hooks' = h
  /\ mpc' = "failed"
  /\ UNCHANGED <<timer_, reporter_thread_, spawned>>

DynamicFailure_afterStartUpdater ==
  /\ startResult' = "ConfigurationValidationError"
  /\ hooks' = <<"ValidateStaticConfiguration", "ShouldStartUpdater",
                "StartUpdater", "ValidateDynamicConfiguration">>
  /\ mpc' = "failed"
  /\ StartUpdater
\* ValidateDynamicConfiguration() throws: StartUpdater() is not reached.
DynamicFailure ==
  StartThrows(<<"ValidateStaticConfiguration", "ShouldStartUpdater",
                "ValidateDynamicConfiguration">>)

\* MetadataUpdater::Start()
Start ==
  /\ mpc = "created"
  /\ IF ~ValidateStaticConfiguration(period_)
       THEN StartThrows(<<"ValidateStaticConfiguration">>)
       ELSE IF ShouldStartUpdater(period_)
         THEN IF ~ValidateDynamicConfiguration
                THEN DynamicFailure
                ELSE /\ hooks' = <<"ValidateStaticConfiguration", "ShouldStartUpdater",
                                   "ValidateDynamicConfiguration", "StartUpdater">>
                     /\ StartUpdater
                     /\ startResult' = "ok"
                     /\ mpc' = "started"
         ELSE /\ hooks' = <<"ValidateStaticConfiguration", "ShouldStartUpdater">>
              /\ startResult' = "ok"
              /\ mpc' = "started"
              /\ UNCHANGED <<timer_, reporter_thread_, spawned>>
  /\ UNCHANGED <<period_, now, stopRequested, stopBeforeFirst, stopInWait>>
  /\ UNCHANGED <<dynamicValid, afterStop, stopInRound, queryFailed, badUnlock>>
  /\ UNCHANGED workerVars
  /\ UNCHANGED logVars

\* The reporter thread is inside a round: at the query or among the store
\* callbacks.
InRound == reporter_thread_ \in {"query", "resource", "metadata"}

\* MetadataUpdater::NotifyStop(), called after Start() has returned.
NotifyStop ==
  /\ mpc = "started"
  /\ NotifyStopUpdater
  /\ stopRequested' = TRUE
  /\ stopBeforeFirst' = (stopBeforeFirst \/ (Joinable(reporter_thread_) /\ rounds = 0))
  /\ stopInWait' = (stopInWait \/
                      (timer_ = "main" /\ timer_' = "none"
                         /\ reporter_thread_ = "wait" /\ now < wakeup))
  /\ stopInRound' = (IF stopInRound = "no" /\ InRound THEN "pending" ELSE stopInRound)
  /\ badUnlock' = (badUnlock \/ timer_ # "main")
  /\ UNCHANGED <<period_, reporter_thread_, mpc, startResult, hooks, now>>
  /\ UNCHANGED <<dynamicValid, spawned, afterStop, queryFailed>>
  /\ UNCHANGED workerVars
  /\ UNCHANGED logVars

\* ~PollingMetadataUpdater(): joinable() decides whether join() is entered.
Destructor ==
  /\ mpc \in {"created", "started", "failed"}
  /\ mpc' = IF Joinable(reporter_thread_) THEN "joining" ELSE "destroyed"
  /\ UNCHANGED <<period_, timer_, reporter_thread_, startResult, hooks, now,
                 stopRequested, stopBeforeFirst, stopInWait>>
  /\ UNCHANGED workerVars
  /\ UNCHANGED auxVars
  /\ UNCHANGED logVars

\* reporter_thread_.join() returns once PollForMetadata has returned.
DestructorJoin ==
  /\ mpc = "joining"
  /\ reporter_thread_ = "exited"
  /\ mpc' = "destroyed"
  /\ UNCHANGED <<period_, timer_, reporter_thread_, startResult, hooks, now,
                 stopRequested, stopBeforeFirst, stopInWait>>
  /\ UNCHANGED workerVars
  /\ UNCHANGED auxVars
  /\ UNCHANGED logVars

\* The clock advances.
Tick ==
  /\ now < MaxTime
  /\ now' = now + 1
  /\ UNCHANGED <<period_, timer_, reporter_thread_>>
  /\ UNCHANGED mainVars
  /\ UNCHANGED workerVars
  /\ UNCHANGED auxVars
  /\ UNCHANGED logVars

\* ------------------------------------------------------ PollForMetadata
\* The wakeup instant computed from the clock reading n.
Wakeup(n, p) == n + p

SpuriousWakeup_ignored(n, w) == FALSE
\* "Detect spurious wakeups": try_lock_until returned false before wakeup.
SpuriousWakeup(n, w) == n < w

AfterItem_noWait(r, i) == IF i > Len(r) THEN "query" ELSE "resource"
AfterItem_stopAware(r, i) ==
  IF timer_ = "none" THEN "exited" ELSE IF i > Len(r) THEN "arm" ELSE "resource"
\* Where the range-for goes after handling position i of vector r.
AfterItem(r, i) == IF i > Len(r) THEN "arm" ELSE "resource"

\* std::vector<ResourceMetadata> result_vector = query_metadata_();
PollQuery ==
  /\ reporter_thread_ = "query"
  /\ \E r \in QueryResults :
       /\ result_vector' = r
       /\ reporter_thread_' = AfterItem(r, 1)
  /\ idx' = 1
  /\ roundLog' = <<>>
  /\ queryTimes' = Push(queryTimes, now)
  /\ rounds' = Min(rounds + 1, 2)
  /\ roundEnd' = now
  /\ UNCHANGED <<period_, timer_, now, start, wakeup, done, storeCalled, earlyReturn>>
  /\ UNCHANGED mainVars
  /\ afterStop' = (IF stopRequested THEN Min(afterStop + 1, 2) ELSE afterStop)
  /\ UNCHANGED <<dynamicValid, spawned, stopInRound, queryFailed, badUnlock>>
  /\ UNCHANGED logVars

PollUpdateResource_asMetadata ==
  /\ reporter_thread_ = "resource"
  /\ roundLog' = Append(roundLog, <<"metadata", result_vector[idx]>>)
  /\ storeCalled' = TRUE
  /\ roundEnd' = now
  /\ reporter_thread_' = "metadata"
  /\ UNCHANGED <<period_, timer_, now, result_vector, idx, start, wakeup, done,
                 queryTimes, rounds, earlyReturn>>
  /\ UNCHANGED mainVars
  /\ UNCHANGED auxVars
  /\ UNCHANGED logVars
\* UpdateResourceCallback(result);
PollUpdateResource ==
  /\ reporter_thread_ = "resource"
  /\ roundLog' = Append(roundLog, <<"resource", result_vector[idx]>>)
  /\ storeCalled' = TRUE
  /\ roundEnd' = now
  /\ reporter_thread_' = "metadata"
  /\ UNCHANGED <<period_, timer_, now, result_vector, idx, start, wakeup, done,
                 queryTimes, rounds, earlyReturn>>
  /\ UNCHANGED mainVars
  /\ UNCHANGED auxVars
  /\ UNCHANGED logVars

\* UpdateMetadataCallback(std::move(result)); then the range-for advances.
PollUpdateMetadata ==
  /\ reporter_thread_ = "metadata"
  /\ roundLog' = Append(roundLog, <<"metadata", result_vector[idx]>>)
  /\ storeCalled' = TRUE
  /\ roundEnd' = now
  /\ idx' = idx + 1
  /\ reporter_thread_' = AfterItem(result_vector, idx + 1)
  /\ UNCHANGED <<period_, timer_, now, result_vector, start, wakeup, done,
                 queryTimes, rounds, earlyReturn>>
  /\ UNCHANGED mainVars
  /\ UNCHANGED auxVars
  /\ UNCHANGED logVars

\* start = now(); wakeup = start + period_; done = true;
PollArm ==
  /\ reporter_thread_ = "arm"
  /\ start' = now
  /\ wakeup' = Wakeup(now, period_)
  /\ done' = TRUE
  /\ earlyReturn' = FALSE
  /\ reporter_thread_' = "wait"
  /\ UNCHANGED <<period_, timer_, now, result_vector, idx, roundLog, storeCalled,
                 queryTimes, rounds, roundEnd>>
  /\ UNCHANGED mainVars
  /\ stopInRound' = (IF stopInRound = "pending"
                        THEN (IF roundLog = Expected(result_vector)
                                THEN "completed" ELSE "truncated")
                        ELSE stopInRound)
  /\ UNCHANGED <<dynamicValid, spawned, afterStop, queryFailed, badUnlock>>
  /\ UNCHANGED logVars

\* timer_.try_lock_until(wakeup) returns true: the worker owns timer_, the
\* inner while ends with done still true, and the do-while ends.
PollTryLockAcquire ==
  /\ reporter_thread_ = "wait"
  /\ done
  /\ timer_ = "none"
  /\ timer_' = "worker"
  /\ reporter_thread_' = "exited"
  /\ UNCHANGED <<period_, now>>
  /\ UNCHANGED mainVars
  /\ UNCHANGED workerVars
  /\ UNCHANGED auxVars
  /\ UNCHANGED logVars

\* timer_.try_lock_until(wakeup) returns false: at the deadline, or earlier
\* (the call may fail spuriously, whether or not timer_ is locked).
PollTryLockFail ==
  /\ reporter_thread_ = "wait"
  /\ done
  /\ reporter_thread_' = "check"
  /\ UNCHANGED <<period_, timer_, now>>
  /\ UNCHANGED mainVars
  /\ UNCHANGED workerVars
  /\ UNCHANGED auxVars
  /\ UNCHANGED logVars

\* now = now(); if (now < wakeup) continue; otherwise re-arm, done = false:
\* the inner while ends on !done and the do-while repeats.
PollCheck ==
  /\ reporter_thread_ = "check"
  /\ IF SpuriousWakeup(now, wakeup)
       THEN /\ reporter_thread_' = "wait"
            /\ earlyReturn' = TRUE
            /\ UNCHANGED <<start, wakeup, done>>
       ELSE /\ start' = now
            /\ UNCHANGED earlyReturn
            /\ wakeup' = Wakeup(now, period_)
            /\ done' = FALSE
            /\ reporter_thread_' = "query"
  /\ UNCHANGED <<period_, timer_, now, result_vector, idx, roundLog, storeCalled,
                 queryTimes, rounds, roundEnd>>
  /\ UNCHANGED mainVars
  /\ UNCHANGED auxVars
  /\ UNCHANGED logVars

PollQueryThrows_caught ==
  /\ reporter_thread_ = "query"
  /\ reporter_thread_' = "arm"
  /\ queryFailed' = TRUE
  /\ result_vector' = <<>>
  /\ roundLog' = <<>>
  /\ queryTimes' = Push(queryTimes, now)
  /\ rounds' = Min(rounds + 1, 2)
  /\ afterStop' = (IF stopRequested THEN Min(afterStop + 1, 2) ELSE afterStop)
  /\ UNCHANGED <<period_, timer_, now, idx, start, wakeup, done, storeCalled,
                 roundEnd, earlyReturn>>
  /\ UNCHANGED <<dynamicValid, spawned, stopInRound, badUnlock>>
  /\ UNCHANGED mainVars
  /\ UNCHANGED logVars
\* query_metadata_() throws.  Nothing in PollForMetadata catches: the
\* exception leaves the thread function, which ends the thread and, through
\* std::terminate, the process, so the orchestrator takes no further step.
PollQueryThrows ==
  /\ reporter_thread_ = "query"
  /\ reporter_thread_' = "terminated"
  /\ mpc' = "aborted"
  /\ queryFailed' = TRUE
  /\ result_vector' = <<>>
  /\ roundLog' = <<>>
  /\ queryTimes' = Push(queryTimes, now)
  /\ rounds' = Min(rounds + 1, 2)
  /\ afterStop' = (IF stopRequested THEN Min(afterStop + 1, 2) ELSE afterStop)
  /\ UNCHANGED <<period_, timer_, now, idx, start, wakeup, done, storeCalled,
                 roundEnd, earlyReturn>>
  /\ UNCHANGED <<dynamicValid, spawned, stopInRound, badUnlock>>
  /\ UNCHANGED <<startResult, hooks, stopRequested, stopBeforeFirst, stopInWait>>
  /\ UNCHANGED logVars

\* ------------------------------------------------------------ LogStream
\* The line a writer passes to write(), and what write() appends for it.
LineOf(w) == [i \in 1..LineLen |-> w]
FullLine(w) == Append(LineOf(w), NL)

\* A thread calls write(line) and reaches the lock_guard.
WriteCall(w) ==
  /\ wr[w].pc = "idle"
  /\ wr[w].n < MaxWrites
  /\ wr' = [wr EXCEPT ![w].pc = "lock"]
  /\ dest' = [dest EXCEPT ![w] = {}]
  /\ UNCHANGED <<mutex_, out_, buf, dev, spc, flushed, raced>>
  /\ UNCHANGED updVars

WriteLock_nolock(w) ==
  /\ wr[w].pc = "lock"
  /\ mutex_' = w
  /\ wr' = [wr EXCEPT ![w].pc = "deref"]
  /\ UNCHANGED <<out_, buf, dev, dest, spc, flushed, raced>>
  /\ UNCHANGED updVars
\* std::lock_guard<std::mutex> lock(mutex_);
WriteLock(w) ==
  /\ wr[w].pc = "lock"
  /\ mutex_ = "none"
  /\ mutex_' = w
  /\ wr' = [wr EXCEPT ![w].pc = "deref"]
  /\ UNCHANGED <<out_, buf, dev, dest, spc, flushed, raced>>
  /\ UNCHANGED updVars

\* (*out_): out_ is read once; both << act on the stream it referred to.
\* The read races with set_stream's assignment and sees the old or the new
\* pointer, as the interleaving has it.
WriteDeref(w) ==
  /\ wr[w].pc = "deref"
  /\ wr' = [wr EXCEPT ![w].os = out_, ![w].pos = 0, ![w].pc = "line"]
  /\ UNCHANGED <<mutex_, out_, buf, dev, dest, spc, flushed, raced>>
  /\ UNCHANGED updVars

\* Whether a step on target t falls inside set_stream's flush of t.
Races(t) == spc = "flushing" /\ t = out_

\* << line: the characters go to the stream's buffer one after another.
WriteChar(w) ==
  /\ wr[w].pc = "line"
  /\ wr[w].pos < LineLen
  /\ buf' = [buf EXCEPT ![wr[w].os] = Append(@, LineOf(w)[wr[w].pos + 1])]
  /\ wr' = [wr EXCEPT ![w].pos = @ + 1,
                      ![w].pc = IF wr[w].pos + 1 = LineLen THEN "endl" ELSE "line"]
  /\ dest' = [dest EXCEPT ![w] = @ \cup {wr[w].os}]
  /\ raced' = (raced \/ Races(wr[w].os))
  /\ UNCHANGED <<mutex_, out_, dev, spc, flushed>>
  /\ UNCHANGED updVars

EndlTarget_reload(w) == out_
\* The stream << std::endl acts on: the one << line returned.
EndlTarget(w) == wr[w].os

\* << std::endl, first half: put the terminator.
WriteEndl(w) ==
  /\ wr[w].pc = "endl"
  /\ buf' = [buf EXCEPT ![EndlTarget(w)] = Append(@, NL)]
  /\ wr' = [wr EXCEPT ![w].pc = "flush"]
  /\ dest' = [dest EXCEPT ![w] = @ \cup {EndlTarget(w)}]
  /\ raced' = (raced \/ Races(EndlTarget(w)))
  /\ UNCHANGED <<mutex_, out_, dev, spc, flushed>>
  /\ UNCHANGED updVars

\* << std::endl, second half: flush the stream.
WriteFlush(w) ==
  /\ wr[w].pc = "flush"
  /\ dev' = [dev EXCEPT ![EndlTarget(w)] = @ \o buf[EndlTarget(w)]]
  /\ buf' = [buf EXCEPT ![EndlTarget(w)] = <<>>]
  /\ wr' = [wr EXCEPT ![w].pc = "unlock"]
  /\ raced' = (raced \/ Races(EndlTarget(w)))
  /\ UNCHANGED <<mutex_, out_, dest, spc, flushed>>
  /\ UNCHANGED updVars

\* The lock_guard is destroyed and write() returns.
WriteUnlock(w) ==
  /\ wr[w].pc = "unlock"
  /\ mutex_' = "none"
  /\ wr' = [wr EXCEPT ![w].pc = "idle", ![w].n = @ + 1]
  /\ UNCHANGED <<out_, buf, dev, dest, spc, flushed, raced>>
  /\ UNCHANGED updVars

\* set_stream: out_->flush() begins, without mutex_: what is buffered is
\* written to the device.
SetStreamFlushBegin ==
  /\ spc = "idle"
  /\ flushed' = buf[out_]
  /\ dev' = [dev EXCEPT ![out_] = @ \o buf[out_]]
  /\ spc' = "flushing"
  /\ UNCHANGED <<mutex_, out_, buf, wr, dest, raced>>
  /\ UNCHANGED updVars

\* What the flush leaves in a buffer b after writing out f.  When a write()
\* touched the buffer in between (a data race on the stream), the flush
\* either drops what it wrote out or resets the whole buffer.
ResetOutcomes(b, f) ==
  {<<>>} \cup
  {IF Len(b) >= Len(f) /\ SubSeq(b, 1, Len(f)) = f
     THEN SubSeq(b, Len(f) + 1, Len(b))
     ELSE b}

\* set_stream: out_->flush() ends: the buffer is reset.
SetStreamFlushEnd ==
  /\ spc = "flushing"
  /\ \E b \in ResetOutcomes(buf[out_], flushed) :
       buf' = [buf EXCEPT ![out_] = b]
  /\ spc' = "swap"
  /\ UNCHANGED <<mutex_, out_, dev, wr, dest, flushed, raced>>
  /\ UNCHANGED updVars

\* set_stream: out_ = &out;
SetStreamSwap ==
  /\ spc = "swap"
  /\ out_' = "new"
  /\ spc' = "done"
  /\ UNCHANGED <<mutex_, buf, dev, wr, dest, flushed, raced>>
  /\ UNCHANGED updVars

\* The steps of write() that a thread takes once it has called it.
WriterStep(w) ==
  \/ WriteLock(w)
  \/ WriteDeref(w)
  \/ WriteChar(w)
  \/ WriteEndl(w)
  \/ WriteFlush(w)
  \/ WriteUnlock(w)

\* ------------------------------------------------------- specifications
Worker ==
  \/ PollQuery
  \/ PollUpdateResource
  \/ PollUpdateMetadata
  \/ PollArm
  \/ PollTryLockAcquire
  \/ PollTryLockFail
  \/ PollCheck

Next ==
  \/ Start
  \/ NotifyStop
  \/ Destructor
  \/ DestructorJoin
  \/ Tick
  \/ Worker

Spec == Init /\ [][Next]_vars

\* The reporter thread is scheduled fairly, every call it makes returns, a
\* try_lock_until on a free timer_ does not fail forever, and join() returns
\* once the thread has ended.
FairSpec ==
  /\ Init /\ [][Next]_vars
  /\ WF_vars(PollQuery)
  /\ WF_vars(PollUpdateResource)
  /\ WF_vars(PollUpdateMetadata)
  /\ WF_vars(PollArm)
  /\ WF_vars(PollCheck)
  /\ SF_vars(PollTryLockAcquire)
  /\ WF_vars(DestructorJoin)

\* The updater with a query_metadata_() that may throw.
NextThrow ==
  \/ Next
  \/ PollQueryThrows

SpecThrow == Init /\ [][NextThrow]_vars

\* The log sink alone: the updater is constructed and left alone.
LogInit == Init /\ period_ = 0 /\ dynamicValid

LogNext ==
  \/ \E w \in Writers : WriteCall(w)
  \/ \E w \in Writers : WriterStep(w)
  \/ SetStreamFlushBegin
  \/ SetStreamFlushEnd
  \/ SetStreamSwap

\* Every thread inside write() is scheduled fairly.
LogSpec ==
  /\ LogInit /\ [][LogNext]_vars
  /\ \A w \in Writers : WF_vars(WriterStep(w))

TypeOK ==
  /\ period_ \in Periods
  /\ timer_ \in {"none", "main", "worker"}
  /\ reporter_thread_ \in {"none", "query", "resource", "metadata", "arm",
                           "wait", "check", "exited", "terminated"}
  /\ mpc \in {"created", "started", "failed", "joining", "destroyed", "aborted"}
  /\ now \in 0..MaxTime
  /\ result_vector \in QueryResults
  /\ rounds \in 0..2

\* ------------------------------------------------------------ properties
\* The reporter thread is inside the deadline-bounded wait.
InWait == reporter_thread_ \in {"wait", "check"}

\* C1: with a negative period, Start() ends with ConfigurationValidationError
\* thrown by ValidateStaticConfiguration (the only hook called), and no
\* thread exists, timer_ is never locked, and neither query() nor a store
\* callback is ever invoked.
C1_NegativePeriodRejected ==
  period_ < 0 =>
    /\ reporter_thread_ = "none"
    /\ timer_ = "none"
    /\ rounds = 0
    /\ queryTimes = <<>>
    /\ ~storeCalled
    /\ startResult \in {"none", "ConfigurationValidationError"}
    /\ startResult = "none" <=> mpc = "created" \/ (mpc = "destroyed" /\ hooks = <<>>)
    /\ startResult # "none" => hooks = <<"ValidateStaticConfiguration">>

C1_Witness ==
  /\ period_ < 0
  /\ startResult = "ConfigurationValidationError"
  /\ mpc = "destroyed"

\* C2: with period zero, Start() ends without error after calling only
\* ValidateStaticConfiguration and ShouldStartUpdater (which is false), no
\* reporter thread ever exists and query() is never invoked.
C2_ZeroPeriodIdle ==
  period_ = 0 =>
    /\ reporter_thread_ = "none"
    /\ rounds = 0
    /\ queryTimes = <<>>
    /\ ~storeCalled
    /\ startResult \in {"none", "ok"}
    /\ startResult = "ok" =>
         hooks = <<"ValidateStaticConfiguration", "ShouldStartUpdater">>

C2_Witness ==
  /\ period_ = 0
  /\ startResult = "ok"
  /\ stopRequested
  /\ mpc = "destroyed"

\* C3: consecutive query() invocations are at least period_ apart, however
\* often try_lock_until returns false early: the k-th later query comes at
\* least k periods later (so a window of length T holds at most
\* T \div period_ + 1 of them), and the thread is back at the query only
\* once period_ has passed since the previous round ended.
C3_Spacing ==
  period_ > 0 =>
    /\ \A i, j \in 1..Len(queryTimes) :
         i < j =>
           /\ queryTimes[j] - queryTimes[i] >= (j - i) * period_
           /\ j - i + 1 <= ((queryTimes[j] - queryTimes[i]) \div period_) + 1
    /\ (rounds >= 1 /\ reporter_thread_ = "query") => now >= roundEnd + period_

C3_Witness ==
  /\ period_ > 0
  /\ Len(queryTimes) >= 2
  /\ earlyReturn
  /\ reporter_thread_ = "arm"

\* C4: the reporter thread leaves the loop only after NotifyStop() was
\* called, and a false return of try_lock_until never ends the loop: an
\* early one re-issues the wait, one at or after wakeup starts a new round.
C4_ExitOnlyByStop ==
  /\ [](reporter_thread_ = "exited" => stopRequested)
  /\ [][reporter_thread_ = "check" /\ reporter_thread_' # "check" =>
          reporter_thread_' = (IF now < wakeup THEN "wait" ELSE "query")]_vars

C4_Witness ==
  /\ reporter_thread_ = "exited"
  /\ rounds = 2
  /\ earlyReturn

\* C5: once NotifyStop() has been called and the destructor is waiting in
\* join(), the reporter thread eventually leaves its loop and the
\* destructor returns.
C5_StopThenDestroyCompletes ==
  (stopRequested /\ mpc = "joining") ~>
      (mpc = "destroyed" /\ reporter_thread_ = "exited")

C5_Witness ==
  /\ period_ > 0
  /\ stopRequested
  /\ mpc = "destroyed"
  /\ reporter_thread_ = "exited"

\* C6: a destructor that finds the thread running without NotifyStop()
\* having been called requests the stop itself, so it eventually returns.
C6_DestroyWithoutStopCompletes ==
  (mpc = "joining" /\ ~stopRequested) ~> (mpc = "destroyed")

\* C7: the destructor has returned only if the reporter thread (if any) has
\* left PollForMetadata, and after it has returned the thread takes no step:
\* no query() and no store callback.
C7_DestroyedAfterWorkerExit ==
  /\ [](mpc = "destroyed" => reporter_thread_ \in {"none", "exited"})
  /\ [][mpc = "destroyed" =>
          UNCHANGED <<reporter_thread_, queryTimes, rounds, roundLog, storeCalled>>]_vars

C7_Witness ==
  /\ mpc = "destroyed"
  /\ reporter_thread_ = "exited"
  /\ storeCalled

\* C8: in every round the store has observed exactly the events expected
\* for the items handled so far, in query order: a resource-update then a
\* metadata-update per item, and nothing more once the round is over.
C8_RoundOrder ==
  /\ roundLog = SubSeq(Expected(result_vector), 1, Len(roundLog))
  /\ reporter_thread_ = "resource" => Len(roundLog) = 2 * (idx - 1)
  /\ reporter_thread_ = "metadata" => Len(roundLog) = 2 * idx - 1
  /\ reporter_thread_ \in {"arm", "wait", "check", "exited"} =>
       roundLog = Expected(result_vector)
  /\ (reporter_thread_ = "query" /\ rounds >= 1) => roundLog = Expected(result_vector)

C8_Witness ==
  /\ reporter_thread_ = "wait"
  /\ result_vector = <<"A", "B">>
  /\ roundLog = <<<<"resource", "A">>, <<"metadata", "A">>,
                  <<"resource", "B">>, <<"metadata", "B">>>>

\* C9: the spawned thread invokes query() before it ever waits on timer_:
\* it is past the query only if a round has begun, and the first query is
\* eventually invoked, also when NotifyStop() came before the thread's
\* first step.
C9_FirstQueryBeforeWait ==
  /\ [](reporter_thread_ \notin {"none", "query"} => rounds >= 1)
  /\ [](rounds = 0 => ~done /\ timer_ # "worker")
  /\ (reporter_thread_ = "query" /\ rounds = 0) ~> (rounds >= 1)

C9_Witness ==
  /\ stopBeforeFirst
  /\ rounds = 1
  /\ reporter_thread_ = "resource"

\* C10: when NotifyStop() frees timer_ while the reporter thread is inside
\* try_lock_until and before wakeup, the thread leaves the loop without
\* another query(): from then on it is in the wait or has exited.
C10_StopInWaitNoFurtherQuery ==
  stopInWait => (InWait \/ reporter_thread_ = "exited")

\* C11: cancellation is level-triggered: once NotifyStop() has released
\* timer_, timer_ stays released in every later state, also after the
\* reporter thread has observed it and left the loop.
C11_ReleasedStaysReleased ==
  [][(stopRequested /\ timer_ = "none") => timer_' = "none"]_vars

\* The order in which Start() calls its hooks.
HookOrder ==
  <<"ValidateStaticConfiguration", "ShouldStartUpdater",
    "ValidateDynamicConfiguration", "StartUpdater">>

\* C12: Start() calls its hooks in the fixed order and stops at the first
\* failure: the hooks called are a prefix of the order; a failed static
\* validation is the only call made; StartUpdater is the last call exactly
\* when a thread was spawned; and after a failed Start() timer_ is not
\* locked and no reporter thread exists.
C12_HookOrder ==
  /\ hooks = SubSeq(HookOrder, 1, Len(hooks))
  /\ (startResult # "none" /\ period_ < 0) => hooks = SubSeq(HookOrder, 1, 1)
  /\ (startResult # "none" /\ period_ > 0 /\ ~dynamicValid) =>
       hooks = SubSeq(HookOrder, 1, 3)
  /\ Len(hooks) = 4 <=> spawned = 1
  /\ startResult = "ConfigurationValidationError" =>
       /\ Len(hooks) \in {1, 3}
       /\ timer_ = "none"
       /\ reporter_thread_ = "none"
       /\ spawned = 0

C12_Witness ==
  /\ period_ > 0
  /\ ~dynamicValid
  /\ startResult = "ConfigurationValidationError"
  /\ mpc = "destroyed"

\* C15: with Start() called at most once, at most one reporter thread is
\* ever spawned, and rounds do not overlap: the thread reaches a query
\* either as its first step or from a wait that timed out (a clock reading
\* at or past wakeup) after every store callback of the previous round.
C15_OneWorkerNoOverlap ==
  /\ [](spawned <= 1 /\ (spawned = 1 <=> reporter_thread_ # "none"))
  /\ [][(reporter_thread_' = "query" /\ reporter_thread_ # "query") =>
          \/ reporter_thread_ = "none" /\ rounds = 0
          \/ /\ reporter_thread_ = "check"
             /\ rounds >= 1
             /\ now >= wakeup
             /\ roundLog = Expected(result_vector)]_vars

C15_Witness ==
  /\ spawned = 1
  /\ rounds = 2
  /\ reporter_thread_ = "metadata"
  /\ Len(result_vector) = 2

\* C16: after NotifyStop() has returned the reporter thread begins at most
\* one further round.
C16_AtMostOneRoundAfterStop == afterStop <= 1

\* C17: a NotifyStop() that lands inside a round does not truncate it: the
\* thread neither waits nor exits before every item of that round has had
\* both callbacks, and it leaves the loop only from the wait.
C17_RoundNotTruncated ==
  /\ [](stopInRound # "truncated")
  /\ [](stopInRound = "pending" => (InRound \/ reporter_thread_ = "arm"))
  /\ [][(reporter_thread_' = "exited" /\ reporter_thread_ # "exited") =>
          reporter_thread_ = "wait"]_vars

C17_Witness ==
  /\ stopInRound = "completed"
  /\ afterStop = 0
  /\ reporter_thread_ = "exited"
  /\ result_vector = <<"A", "B">>
  /\ roundLog = Expected(result_vector)

\* C20: every timer_.unlock() of NotifyStopUpdater runs while timer_ is
\* locked by the thread that ran StartUpdater: never while timer_ is
\* unlocked and never while the reporter thread holds it.
C20_UnlockOnlyWhileOwned == ~badUnlock

\* C19: a query_metadata_() that throws is not caught: the round has no
\* store callback, and the reporter thread is terminated at once: it never
\* waits on timer_ and takes no further step, so no further round begins.
C19_QueryFailureTerminates ==
  /\ [](queryFailed =>
          /\ reporter_thread_ = "terminated"
          /\ roundLog = <<>>
          /\ timer_ # "worker")
  /\ [][reporter_thread_ = "terminated" =>
          /\ reporter_thread_' = "terminated"
          /\ UNCHANGED workerVars]_vars

C19_Witness ==
  /\ queryFailed
  /\ reporter_thread_ = "terminated"
  /\ rounds = 2
  /\ storeCalled

\* ------------------------------------------------------ LogStream claims
\* What target t holds: what reached its device, then what is buffered.
Content(t) == dev[t] \o buf[t]

\* The k-th chunk of c of the length of a terminated line.
Chunk(c, k) == SubSeq(c, (k - 1) * (LineLen + 1) + 1, k * (LineLen + 1))
NChunks(c) == Len(c) \div (LineLen + 1)
\* What follows the last whole chunk of c.
Rest(c) == SubSeq(c, NChunks(c) * (LineLen + 1) + 1, Len(c))
\* How many chunks of c are the complete line of writer w.
CountLines(c, w) == Cardinality({k \in 1..NChunks(c) : Chunk(c, k) = FullLine(w)})
\* Every chunk of c is some writer's complete line.
WholeLines(c) ==
  \A k \in 1..NChunks(c) : \E w \in Writers : Chunk(c, k) = FullLine(w)

\* Writer w is between taking mutex_ and releasing it.
InCS(w) == wr[w].pc \in {"deref", "line", "endl", "flush", "unlock"}
\* Every write() call has returned.
AllDone == \A w \in Writers : wr[w].n = MaxWrites /\ wr[w].pc = "idle"

\* C14: at most one thread is inside write()'s critical section; as long
\* as set_stream has not been called the target holds whole lines only,
\* one per finished append, followed by at most the part the lock holder
\* has appended so far; when all N*M calls have returned it holds exactly
\* N*M whole lines, M of each writer; and every write() that waits for the
\* lock eventually returns.
C14_WriteExclusive ==
  /\ [](Cardinality({w \in Writers : InCS(w)}) <= 1)
  /\ [](spc = "idle" =>
          LET c == Content("old") IN
            /\ WholeLines(c)
            /\ \A w \in Writers :
                 CountLines(c, w) =
                   wr[w].n + (IF wr[w].pc \in {"flush", "unlock"} THEN 1 ELSE 0)
            /\ \/ Rest(c) = <<>>
               \/ \E w \in Writers :
                    /\ wr[w].pc \in {"line", "endl"}
                    /\ Rest(c) = SubSeq(LineOf(w), 1, wr[w].pos))
  /\ []((spc = "idle" /\ AllDone) =>
          /\ Len(Content("old")) = Cardinality(Writers) * MaxWrites * (LineLen + 1)
          /\ Rest(Content("old")) = <<>>
          /\ Content("new") = <<>>)
  /\ \A w \in Writers : (wr[w].pc = "lock") ~> (wr[w].pc = "idle")

C14_Witness ==
  /\ spc = "idle"
  /\ AllDone
  /\ Chunk(Content("old"), 1) = FullLine("w2")
  /\ Chunk(Content("old"), 2) = FullLine("w1")

\* C18 as claimed: under any interleaving of write() calls with a
\* set_stream call every written line ends up exactly once and whole on
\* exactly one of the two targets.
C18_EveryLineOnceAndWhole ==
  (AllDone /\ spc = "done") =>
    /\ \A t \in Targets : WholeLines(Content(t)) /\ Rest(Content(t)) = <<>>
    /\ \A w \in Writers :
         CountLines(Content("old"), w) + CountLines(Content("new"), w) = MaxWrites

\* C18 as amended: one write() appends its characters and its terminator
\* to a single target, so no line is split across the two; the new target,
\* which set_stream does not flush, holds whole lines only (and the part
\* the lock holder has appended so far); and every line is there exactly
\* once and whole unless a write() touched the old target's buffer while
\* set_stream was inside its flush.
C18_NeverSplit ==
  /\ \A w \in Writers : Cardinality(dest[w]) <= 1
  /\ \A w \in Writers : (wr[w].pc \in {"endl", "flush"}) => dest[w] = {wr[w].os}
  /\ WholeLines(Content("new"))
  /\ \/ Rest(Content("new")) = <<>>
     \/ \E w \in Writers :
          /\ wr[w].pc \in {"line", "endl"}
          /\ wr[w].os = "new"
          /\ Rest(Content("new")) = SubSeq(LineOf(w), 1, wr[w].pos)
  /\ (AllDone /\ ~raced) =>
       /\ \A t \in Targets : WholeLines(Content(t)) /\ Rest(Content(t)) = <<>>
       /\ \A w \in Writers :
            CountLines(Content("old"), w) + CountLines(Content("new"), w) = MaxWrites

\* set_stream took effect while a write() held the lock, and the line went
\* whole to the old target while a later one went to the new target.
C18_Witness ==
  /\ AllDone
  /\ spc = "done"
  /\ ~raced
  /\ \E w \in Writers : CountLines(Content("old"), w) = 1 /\ CountLines(Content("new"), w) = 1
  /\ flushed # <<>>

====
